---- MODULE Spec2Model ----
(***************************************************************************)
(* A model of github.com/renormlabs/assert: the check functions of         *)
(* assert.go, and the TBSpy of internal/spy that wraps a testing.TB to     *)
(* record failure reports without failing the wrapped test.                *)
(*                                                                         *)
(* Every check function and every TBSpy method is an operator that takes   *)
(* the heap h (the wrapped testing.TB, the TBSpy and the trace of the      *)
(* reporting-context calls made so far in this handler) and returns the    *)
(* heap it leaves. A reporting context is named by "real" (the testing.T   *)
(* the framework supplies) or "spy" (the TBSpy around it).                 *)
(***************************************************************************)
EXTENDS Integers, Sequences, FiniteSets, TLC

VARIABLES tb, failed, last, ncalls, reports

vars == <<tb, failed, last, ncalls, reports>>

\* ------------------------------------------------------------------ bounds

\* Number of operations in one test case (Spec).
MaxCalls == 1
\* Number of TBSpy method calls in one test case (SpecSpy).
MaxSpyCalls == 4
\* Number of check calls before the deferred ExpectFailure (SpecPattern).
MaxPatternCalls == 2
\* Number of times one check is called with the same input (SpecRepeat).
MaxRepeat == 4
\* Values of a comparable type are 0..MaxVal (and, for float64, NaN).
MaxVal == 1
\* Strings are the sequences over Alphabet of at most MaxStrLen characters,
\* the substrings looked for those of fewer than MaxStrLen.
MaxStrLen == 2
\* Slices have at most MaxSliceLen elements.
MaxSliceLen == 1

\* ------------------------------------------------------------------ values

Alphabet == {"a", "b"}

Strings == UNION {[1..n -> Alphabet] : n \in 0..MaxStrLen}

Substrings == UNION {[1..n -> Alphabet] : n \in 0..(MaxStrLen - 1)}

\* A value of a type T that satisfies `comparable`. nan marks a float64 NaN.
ComparableTypes == {"int", "string", "float64"}

Comparables ==
  {[type |-> ty, v |-> v, nan |-> FALSE] : ty \in ComparableTypes, v \in 0..MaxVal}
    \cup {[type |-> "float64", v |-> 0, nan |-> TRUE]}

\* Go's == on two values of one comparable type: a NaN equals nothing.
GoEq(x, y) == x.type = y.type /\ ~x.nan /\ ~y.nan /\ x.v = y.v

\* The bool operand of Truef/Falsef as a comparable value.
Bool(b) == [type |-> "bool", v |-> IF b THEN 1 ELSE 0, nan |-> FALSE]

\* An argument of Nil/NotNil as the caller writes it: the untyped nil, or a
\* value of a static type, which is the nil of that type or not.
NilableKinds == {"interface", "ptr", "map", "slice"}

Args ==
  {[kind |-> "untyped", isnil |-> TRUE]}
    \cup {[kind |-> k, isnil |-> n] : k \in NilableKinds, n \in BOOLEAN}
    \cup {[kind |-> k, isnil |-> FALSE] : k \in {"int", "string"}}

\* An `any`: the dynamic type it holds ("none" for the nil interface) and
\* whether the held value is the nil of that type.
NilAny == [dyn |-> "none", isnil |-> TRUE]

\* The conversion of an argument to the parameter type `any`: the untyped nil
\* and a nil interface become the nil interface; every other value, a nil
\* pointer, map or slice included, becomes an interface holding that type.
ToAny(x) ==
  IF x.isnil /\ x.kind \in {"untyped", "interface"}
  THEN NilAny
  ELSE [dyn |-> IF x.kind = "interface" THEN "ptr" ELSE x.kind, isnil |-> x.isnil]

\* actual == nil on an `any`: true of the nil interface only.
IsNilInterface(a) == a.dyn = "none"

\* strings.Contains(s, substr): strings.Index scans the start positions from
\* the left and compares the bytes of substr at each.
HasPrefixAt(s, substr, i) ==
  /\ i + Len(substr) <= Len(s)
  /\ \A k \in 1..Len(substr) : s[i + k] = substr[k]

RECURSIVE Index(_, _, _)
Index(s, substr, i) ==
  IF i + Len(substr) > Len(s) THEN -1
  ELSE IF HasPrefixAt(s, substr, i) THEN i
  ELSE Index(s, substr, i + 1)

Contains(s, substr) == Index(s, substr, 0) >= 0

\* A map[K]V is a function on the keys it holds; a []T is a sequence.
Keys == {"foo", "baz"}

Maps == UNION {[ks -> {"bar"}] : ks \in SUBSET Keys}

Slices == UNION {[1..n -> 0..MaxVal] : n \in 0..MaxSliceLen}

\* Operands of DeepEqual: a pointer (addr) to a slice, which is nil or holds
\* elems. Two operands at one address are one object.
DeepVals ==
  {[addr |-> a, isnil |-> FALSE, elems |-> e] : a \in 0..1, e \in Slices}
    \cup {[addr |-> a, isnil |-> TRUE, elems |-> <<>>] : a \in 0..1}

DeepPairs ==
  {p \in DeepVals \X DeepVals :
     \/ p[1] = p[2]
     \/ p[1].addr < p[2].addr}

\* reflect.DeepEqual: equal pointers are deeply equal, otherwise the pointees
\* are compared; a nil slice and an empty non-nil slice are not deeply equal,
\* slices of one length are compared element by element.
DeepEqualSlices(x, y) ==
  /\ x.isnil = y.isnil
  /\ Len(x.elems) = Len(y.elems)
  /\ \A i \in 1..Len(x.elems) : x.elems[i] = y.elems[i]

ReflectDeepEqual(x, y) == x.addr = y.addr \/ DeepEqualSlices(x, y)

\* ------------------------------------------------------------------ errors

\* The error values of the tests. 0 is the nil error.
\*   1  errToCompare = errors.New("test error")
\*   2  fmt.Errorf("foo: %w", errToCompare)
\*   3  errors.New("not the same") / fmt.Errorf("test error")
\*   4  fmt.Errorf("bar: %w", error 2)
\*   5  an error with an Is method that accepts error 3
\*   6  errors.Join(error 3, error 2)
\*   7  fmt.Errorf("baz: %w", error 5)
NilErr == 0

Errs == 1..7

ErrOrNil == {NilErr} \cup Errs

\* The errors Unwrap() error / Unwrap() []error returns, in order.
Unwrap(e) ==
  CASE e = 2 -> <<1>>
    [] e = 4 -> <<2>>
    [] e = 6 -> <<3, 2>>
    [] e = 7 -> <<5>>
    [] OTHER -> <<>>

\* The method Is(target) bool of an error that has one.
IsMethod(e, target) == e = 5 /\ target = 3

\* errors.is: err == target, then err.Is(target), then the same on what err
\* unwraps to, depth first and in order.
RECURSIVE is(_, _)
RECURSIVE isAny(_, _, _)
is(err, target) ==
  \/ err = target
  \/ IsMethod(err, target)
  \/ isAny(Unwrap(err), target, 1)

isAny(errs, target, i) ==
  IF i > Len(errs) THEN FALSE
  ELSE is(errs[i], target) \/ isAny(errs, target, i + 1)

\* errors.Is: with a nil err or a nil target, whether both are nil.
errorsIs(err, target) ==
  IF err = NilErr \/ target = NilErr THEN err = target ELSE is(err, target)

\* ------------------------------------------------------------------ panics

\* A zero-argument procedure f: it returns, or it panics with a payload,
\* which is a non-nil value or nil (panic(nil)).
Funcs == {"returns", "panics", "panics nil"}

\* The value recover() yields in a function deferred around f(): nil when f
\* returned, the payload when f panicked, and a *runtime.PanicNilError when
\* the payload was nil (the runtime's behaviour since go 1.21).
recover(f) ==
  CASE f = "returns" -> "nil"
    [] f = "panics" -> "test"
    [] f = "panics nil" -> "PanicNilError"

Panicked(f) == f # "returns"

\* ------------------------------------------------------------------ testing.TB

Ctxs == {"real", "spy"}

\* The methods of testing.TB that mark the test failed, and those of them
\* that also stop it (runtime.Goexit).
FailOps == {"Fail", "FailNow", "Error", "Errorf", "Fatal", "Fatalf"}

FatalOps == {"FailNow", "Fatal", "Fatalf"}

\* The call of method op on context t, appended to the handler's trace.
Rec(h, t, op) == [h EXCEPT !.trace = Append(@, <<t, op>>)]

\* The wrapped testing.TB, as the testing package implements it.
TB_Helper(h) == Rec(h, "real", "Helper")

TB_Log(h) == Rec(h, "real", "Log")

TB_Logf(h) == Rec(h, "real", "Logf")

TB_Errorf(h) ==
  [Rec(h, "real", "Errorf") EXCEPT !.tb.failed = TRUE, !.tb.errors = @ + 1]

TB_Fail(h) == [Rec(h, "real", "Fail") EXCEPT !.tb.failed = TRUE]

TB_FailNow(h) ==
  [Rec(h, "real", "FailNow") EXCEPT !.tb.failed = TRUE, !.tb.aborted = TRUE]

TB_Fatalf(h) ==
  [Rec(h, "real", "Fatalf") EXCEPT !.tb.failed = TRUE, !.tb.aborted = TRUE]

\* ------------------------------------------------------------------ TBSpy

\* SpyOn(t): &TBSpy{TB: t}, failed is the zero value.
SpyOn == FALSE

SpiedOnAFailure(h) == h.failed

TBSpy_Fail_Toggle(h) ==
  [TB_Helper(Rec(h, "spy", "Fail")) EXCEPT !.failed = ~h.failed]

TBSpy_Fail(h) == [TB_Helper(Rec(h, "spy", "Fail")) EXCEPT !.failed = TRUE]

TBSpy_FailNow(h) == [TB_Helper(Rec(h, "spy", "FailNow")) EXCEPT !.failed = TRUE]

TBSpy_Error(h) ==
  TB_Log([TB_Helper(Rec(h, "spy", "Error")) EXCEPT !.failed = TRUE])

TBSpy_Errorf_NoFlag(h) == TB_Logf(TB_Helper(Rec(h, "spy", "Errorf")))

TBSpy_Errorf(h) ==
  TB_Logf([TB_Helper(Rec(h, "spy", "Errorf")) EXCEPT !.failed = TRUE])

TBSpy_Fatalf_Forward(h) ==
  TB_Fatalf([TB_Helper(Rec(h, "spy", "Fatalf")) EXCEPT !.failed = TRUE])

TBSpy_Fatalf(h) ==
  TB_Logf([TB_Helper(Rec(h, "spy", "Fatalf")) EXCEPT !.failed = TRUE])

TBSpy_Fatal(h) ==
  TB_Log([TB_Helper(Rec(h, "spy", "Fatal")) EXCEPT !.failed = TRUE])

\* The embedded testing.TB: a method TBSpy does not define is the wrapped one's.
TBSpy_Helper(h) == TB_Helper(Rec(h, "spy", "Helper"))

\* t.Fatalf(format, args...) and t.Failed() on a testing.TB t (TBSpy does not
\* define Failed: it is the wrapped one's).
Fatalf(h, t) == IF t = "spy" THEN TBSpy_Fatalf(h) ELSE TB_Fatalf(h)

Failed(h, t) == h.tb.failed

\* t.Helper() and t.Errorf(format, args...) on a testing.TB t.
Helper(h, t) == IF t = "spy" THEN TBSpy_Helper(h) ELSE TB_Helper(h)

Errorf(h, t) == IF t = "spy" THEN TBSpy_Errorf(h) ELSE TB_Errorf(h)

\* ------------------------------------------------------------------ assert

Equalf_Fatalf(h, t, expected, actual) ==
  LET h1 == Helper(h, t)
  IN IF ~GoEq(expected, actual) THEN Fatalf(h1, t) ELSE h1

Equalf(h, t, expected, actual) ==
  LET h1 == Helper(h, t)
  IN IF ~GoEq(expected, actual) THEN Errorf(h1, t) ELSE h1

Equal(h, t, expected, actual) == Equalf(Helper(h, t), t, expected, actual)

NotEqualf_Neq(h, t, expected, actual) ==
  LET h1 == Helper(h, t)
  IN IF ~GoEq(expected, actual) THEN Errorf(h1, t) ELSE h1

NotEqualf(h, t, expected, actual) ==
  LET h1 == Helper(h, t)
  IN IF GoEq(expected, actual) THEN Errorf(h1, t) ELSE h1

NotEqual_Equalf(h, t, expected, actual) ==
  Equalf(Helper(h, t), t, expected, actual)

NotEqual(h, t, expected, actual) == NotEqualf(Helper(h, t), t, expected, actual)

Truef(h, t, actual) == Equalf(Helper(h, t), t, Bool(TRUE), Bool(actual))

True(h, t, actual) == Truef(Helper(h, t), t, actual)

Falsef(h, t, actual) == Equalf(Helper(h, t), t, Bool(FALSE), Bool(actual))

False(h, t, actual) == Falsef(Helper(h, t), t, actual)

Nilf(h, t, actual) ==
  LET h1 == Helper(h, t)
  IN IF ~IsNilInterface(actual) THEN Errorf(h1, t) ELSE h1

Nil(h, t, actual) == Nilf(Helper(h, t), t, actual)

NotNilf(h, t, actual) ==
  LET h1 == Helper(h, t)
  IN IF IsNilInterface(actual) THEN Errorf(h1, t) ELSE h1

NotNil(h, t, actual) == NotNilf(Helper(h, t), t, actual)

StringContainsf_Once(h, t, str, substr) ==
  LET h1 == Helper(h, t)
  IN IF ~Contains(str, substr) /\ ~Failed(h1, t) THEN Errorf(h1, t) ELSE h1

StringContainsf(h, t, str, substr) ==
  LET h1 == Helper(h, t)
  IN IF ~Contains(str, substr) THEN Errorf(h1, t) ELSE h1

StringContains(h, t, str, substr) ==
  StringContainsf(Helper(h, t), t, str, substr)

StringDoesNotContainf(h, t, str, substr) ==
  LET h1 == Helper(h, t)
  IN IF Contains(str, substr) THEN Errorf(h1, t) ELSE h1

StringDoesNotContain(h, t, str, substr) ==
  StringDoesNotContainf(Helper(h, t), t, str, substr)

Panicsf_NoDefer(h, t, f) ==
  LET h1 == Helper(h, t)
  IN [h |-> IF Panicked(f) THEN h1 ELSE Errorf(h1, t),
      recovery |-> "nil",
      escaped |-> Panicked(f)]

\* The deferred function runs when f returns and when f panics; its call of
\* recover() stops the panic, so none escapes (escaped is FALSE).
Panicsf(h, t, f) ==
  LET h1 == Helper(h, t)
      recovery == recover(f)
  IN [h |-> IF recovery = "nil" THEN Errorf(h1, t) ELSE h1,
      recovery |-> recovery,
      escaped |-> FALSE]

Panics(h, t, f) == Panicsf(Helper(h, t), t, f)

DoesNotPanicf(h, t, f) ==
  LET h1 == Helper(h, t)
      r == recover(f)
  IN [h |-> IF r # "nil" THEN Errorf(h1, t) ELSE h1,
      recovery |-> "nil",
      escaped |-> FALSE]

DoesNotPanic(h, t, f) == DoesNotPanicf(Helper(h, t), t, f)

ErrorIsf(h, t, err, target) ==
  LET h1 == Helper(h, t)
  IN IF ~errorsIs(err, target) THEN Errorf(h1, t) ELSE h1

ErrorIs(h, t, err, target) == ErrorIsf(Helper(h, t), t, err, target)

ErrorIsNotf_Negated(h, t, err, target) ==
  LET h1 == Helper(h, t)
  IN IF ~errorsIs(err, target) THEN Errorf(h1, t) ELSE h1

ErrorIsNotf(h, t, err, target) ==
  LET h1 == Helper(h, t)
  IN IF errorsIs(err, target) THEN Errorf(h1, t) ELSE h1

ErrorIsNot(h, t, err, target) == ErrorIsNotf(Helper(h, t), t, err, target)

MapContainsKeyf(h, t, m, key) ==
  LET h1 == Helper(h, t)
  IN IF ~(key \in DOMAIN m) THEN Errorf(h1, t) ELSE h1

MapContainsKey(h, t, m, key) == MapContainsKeyf(Helper(h, t), t, m, key)

MapDoesNotContainKeyf(h, t, m, key) ==
  LET h1 == Helper(h, t)
  IN IF key \in DOMAIN m THEN Errorf(h1, t) ELSE h1

MapDoesNotContainKey(h, t, m, key) ==
  MapDoesNotContainKeyf(Helper(h, t), t, m, key)

EmptyMapf(h, t, m) ==
  LET h1 == Helper(h, t)
  IN IF Cardinality(DOMAIN m) # 0 THEN Errorf(h1, t) ELSE h1

EmptyMap(h, t, m) == EmptyMapf(Helper(h, t), t, m)

NotEmptyMapf(h, t, m) ==
  LET h1 == Helper(h, t)
  IN IF Cardinality(DOMAIN m) = 0 THEN Errorf(h1, t) ELSE h1

NotEmptyMap(h, t, m) == NotEmptyMapf(Helper(h, t), t, m)

EmptySlicef(h, t, slice) ==
  LET h1 == Helper(h, t)
  IN IF Len(slice) # 0 THEN Errorf(h1, t) ELSE h1

EmptySlice(h, t, slice) == EmptySlicef(Helper(h, t), t, slice)

NotEmptySlicef(h, t, slice) ==
  LET h1 == Helper(h, t)
  IN IF Len(slice) = 0 THEN Errorf(h1, t) ELSE h1

NotEmptySlice(h, t, slice) == NotEmptySlicef(Helper(h, t), t, slice)

DeepEqualf(h, t, expected, actual) ==
  LET h1 == Helper(h, t)
  IN IF ~ReflectDeepEqual(expected, actual) THEN Errorf(h1, t) ELSE h1

DeepEqual(h, t, expected, actual) == DeepEqualf(Helper(h, t), t, expected, actual)

NotDeepEqualf(h, t, expected, actual) ==
  LET h1 == Helper(h, t)
  IN IF ReflectDeepEqual(expected, actual) THEN Errorf(h1, t) ELSE h1

NotDeepEqual(h, t, expected, actual) ==
  NotDeepEqualf(Helper(h, t), t, expected, actual)

\* ExpectFailure / ExpectSuccess report on the wrapped testing.TB, s.TB.
ExpectFailure(h) ==
  Truef(TB_Helper(Rec(h, "spy", "ExpectFailure")), "real", h.failed)

ExpectSuccess_Truef(h) ==
  Truef(TB_Helper(Rec(h, "spy", "ExpectSuccess")), "real", h.failed)

ExpectSuccess(h) ==
  Falsef(TB_Helper(Rec(h, "spy", "ExpectSuccess")), "real", h.failed)

\* ------------------------------------------------------------------ state

\* tb      the wrapped testing.TB: whether it is marked failed, whether the test
\*         was stopped (FailNow), and the number of Errorf calls it received
\* failed  TBSpy.failed
\* last    the last operation of the test: its name, the reporting context t
\*         it was given, its input, the reporting-context calls it made, what
\*         it returned and whether control returned to the test
\* ncalls  the number of operations so far
\* reports the number of Errorf calls the check functions called by the test
\*         made on the context they were given

\* The heap a handler starts from.
H == [tb |-> tb, failed |-> failed, trace |-> <<>>]

\* What a check function without a result leaves.
Ret(h) == [h |-> h, recovery |-> "nil", escaped |-> FALSE]

\* The number of calls of method op on context t in a trace.
Count(trace, t, op) == Cardinality({i \in 1..Len(trace) : trace[i] = <<t, op>>})

CheckFns ==
  {"Equalf", "Equal", "NotEqualf", "NotEqual",
   "Truef", "True", "Falsef", "False",
   "Nilf", "Nil", "NotNilf", "NotNil",
   "StringContainsf", "StringContains", "StringDoesNotContainf", "StringDoesNotContain",
   "Panicsf", "Panics", "DoesNotPanicf", "DoesNotPanic",
   "ErrorIsf", "ErrorIs", "ErrorIsNotf", "ErrorIsNot",
   "MapContainsKeyf", "MapContainsKey", "MapDoesNotContainKeyf", "MapDoesNotContainKey",
   "EmptyMapf", "EmptyMap", "NotEmptyMapf", "NotEmptyMap",
   "EmptySlicef", "EmptySlice", "NotEmptySlicef", "NotEmptySlice",
   "DeepEqualf", "DeepEqual", "NotDeepEqualf", "NotDeepEqual"}

SpyFailFns == {"TBSpy.Fail", "TBSpy.FailNow", "TBSpy.Error", "TBSpy.Errorf",
               "TBSpy.Fatal", "TBSpy.Fatalf"}

Init ==
  /\ tb = [failed |-> FALSE, aborted |-> FALSE, errors |-> 0]
  /\ failed = SpyOn
  /\ last = [fn |-> "SpyOn", t |-> "real", input |-> <<>>, trace |-> <<>>,
             result |-> "nil", returned |-> TRUE]
  /\ ncalls = 0
  /\ reports = 0

\* The call the test made last, again (any call when it made none yet).
SameCall(fn, t, input) ==
  ncalls > 0 => fn = last.fn /\ t = last.t /\ input = last.input

\* The kinds of test. A test of kind K makes at most K.max operations, gives
\* its checks a context of K.ctxs, makes nothing after an operation of
\* K.final and, with K.again, only repeats its first call; with K.forms it
\* calls the formatted form of a check and then its default form, with the
\* same context and input.
AnyTest ==
  [ctxs |-> Ctxs, max |-> MaxCalls, final |-> {}, again |-> FALSE,
   forms |-> FALSE]

SpyTest ==
  [ctxs |-> {"spy"}, max |-> MaxSpyCalls, final |-> {}, again |-> FALSE,
   forms |-> FALSE]

PatternTest ==
  [ctxs |-> {"spy"}, max |-> MaxPatternCalls,
   final |-> {"TBSpy.ExpectFailure"}, again |-> FALSE, forms |-> FALSE]

PatternEnd == [PatternTest EXCEPT !.max = @ + 1]

RepeatTest ==
  [ctxs |-> Ctxs, max |-> MaxRepeat, final |-> {}, again |-> TRUE,
   forms |-> FALSE]

FormsTest ==
  [ctxs |-> Ctxs, max |-> 2, final |-> {}, again |-> FALSE, forms |-> TRUE]

\* The default-message forms (Equal) and the formatted forms (Equalf).
DefaultFns == {fn \in CheckFns : (fn \o "f") \in CheckFns}

FormattedFns == CheckFns \ DefaultFns

\* A formatted form first, then the default form of the same check with the
\* same context and input.
FormsCall(fn, t, input) ==
  IF ncalls = 0
  THEN fn \in FormattedFns
  ELSE (fn \o "f") = last.fn /\ t = last.t /\ input = last.input

\* The call (fn, t, input) is one a test of kind K may make next.
Admits(K, fn, t, input) ==
  /\ ncalls < K.max
  /\ last.fn \notin K.final
  /\ K.again => SameCall(fn, t, input)
  /\ K.forms => FormsCall(fn, t, input)

\* One operation of the test: res is what its code leaves.
Do(fn, t, input, res, result) ==
  /\ ~tb.aborted
  /\ tb' = res.h.tb
  /\ failed' = res.h.failed
  /\ last' = [fn |-> fn, t |-> t, input |-> input, trace |-> res.h.trace,
              result |-> result,
              returned |-> ~res.escaped /\ ~res.h.tb.aborted]
  /\ ncalls' = ncalls + 1
  /\ reports' = IF fn \in CheckFns
                THEN reports + Count(res.h.trace, t, "Errorf")
                ELSE reports

\* ------------------------------------------------------------------ actions
\* The test calls a check function with reporting context t in T.

DoEqualf(K) ==
  \E t \in K.ctxs, p \in Comparables \X Comparables :
    /\ p[1].type = p[2].type
    /\ Admits(K, "Equalf", t, p)
    /\ Do("Equalf", t, p, Ret(Equalf(H, t, p[1], p[2])), "nil")

DoEqual(K) ==
  \E t \in K.ctxs, p \in Comparables \X Comparables :
    /\ p[1].type = p[2].type
    /\ Admits(K, "Equal", t, p)
    /\ Do("Equal", t, p, Ret(Equal(H, t, p[1], p[2])), "nil")

DoNotEqualf(K) ==
  \E t \in K.ctxs, p \in Comparables \X Comparables :
    /\ p[1].type = p[2].type
    /\ Admits(K, "NotEqualf", t, p)
    /\ Do("NotEqualf", t, p, Ret(NotEqualf(H, t, p[1], p[2])), "nil")

DoNotEqual(K) ==
  \E t \in K.ctxs, p \in Comparables \X Comparables :
    /\ p[1].type = p[2].type
    /\ Admits(K, "NotEqual", t, p)
    /\ Do("NotEqual", t, p, Ret(NotEqual(H, t, p[1], p[2])), "nil")

DoTruef(K) ==
  \E t \in K.ctxs, b \in BOOLEAN :
    /\ Admits(K, "Truef", t, <<b>>)
    /\ Do("Truef", t, <<b>>, Ret(Truef(H, t, b)), "nil")

DoTrue(K) ==
  \E t \in K.ctxs, b \in BOOLEAN :
    /\ Admits(K, "True", t, <<b>>)
    /\ Do("True", t, <<b>>, Ret(True(H, t, b)), "nil")

DoFalsef(K) ==
  \E t \in K.ctxs, b \in BOOLEAN :
    /\ Admits(K, "Falsef", t, <<b>>)
    /\ Do("Falsef", t, <<b>>, Ret(Falsef(H, t, b)), "nil")

DoFalse(K) ==
  \E t \in K.ctxs, b \in BOOLEAN :
    /\ Admits(K, "False", t, <<b>>)
    /\ Do("False", t, <<b>>, Ret(False(H, t, b)), "nil")

DoNilf(K) ==
  \E t \in K.ctxs, x \in Args :
    /\ Admits(K, "Nilf", t, <<x>>)
    /\ Do("Nilf", t, <<x>>, Ret(Nilf(H, t, ToAny(x))), "nil")

DoNil(K) ==
  \E t \in K.ctxs, x \in Args :
    /\ Admits(K, "Nil", t, <<x>>)
    /\ Do("Nil", t, <<x>>, Ret(Nil(H, t, ToAny(x))), "nil")

DoNotNilf(K) ==
  \E t \in K.ctxs, x \in Args :
    /\ Admits(K, "NotNilf", t, <<x>>)
    /\ Do("NotNilf", t, <<x>>, Ret(NotNilf(H, t, ToAny(x))), "nil")

DoNotNil(K) ==
  \E t \in K.ctxs, x \in Args :
    /\ Admits(K, "NotNil", t, <<x>>)
    /\ Do("NotNil", t, <<x>>, Ret(NotNil(H, t, ToAny(x))), "nil")

DoStringContainsf(K) ==
  \E t \in K.ctxs, p \in Strings \X Substrings :
    /\ Admits(K, "StringContainsf", t, p)
    /\ Do("StringContainsf", t, p, Ret(StringContainsf(H, t, p[1], p[2])), "nil")

DoStringContains(K) ==
  \E t \in K.ctxs, p \in Strings \X Substrings :
    /\ Admits(K, "StringContains", t, p)
    /\ Do("StringContains", t, p, Ret(StringContains(H, t, p[1], p[2])), "nil")

DoStringDoesNotContainf(K) ==
  \E t \in K.ctxs, p \in Strings \X Substrings :
    /\ Admits(K, "StringDoesNotContainf", t, p)
    /\ Do("StringDoesNotContainf", t, p, Ret(StringDoesNotContainf(H, t, p[1], p[2])), "nil")

DoStringDoesNotContain(K) ==
  \E t \in K.ctxs, p \in Strings \X Substrings :
    /\ Admits(K, "StringDoesNotContain", t, p)
    /\ Do("StringDoesNotContain", t, p, Ret(StringDoesNotContain(H, t, p[1], p[2])), "nil")

DoPanicsf(K) ==
  \E t \in K.ctxs, f \in Funcs :
    /\ Admits(K, "Panicsf", t, <<f>>)
    /\ Do("Panicsf", t, <<f>>, Panicsf(H, t, f), Panicsf(H, t, f).recovery)

DoPanics(K) ==
  \E t \in K.ctxs, f \in Funcs :
    /\ Admits(K, "Panics", t, <<f>>)
    /\ Do("Panics", t, <<f>>, Panics(H, t, f), Panics(H, t, f).recovery)

DoDoesNotPanicf(K) ==
  \E t \in K.ctxs, f \in Funcs :
    /\ Admits(K, "DoesNotPanicf", t, <<f>>)
    /\ Do("DoesNotPanicf", t, <<f>>, DoesNotPanicf(H, t, f), "nil")

DoDoesNotPanic(K) ==
  \E t \in K.ctxs, f \in Funcs :
    /\ Admits(K, "DoesNotPanic", t, <<f>>)
    /\ Do("DoesNotPanic", t, <<f>>, DoesNotPanic(H, t, f), "nil")

DoErrorIsf(K) ==
  \E t \in K.ctxs, p \in ErrOrNil \X ErrOrNil :
    /\ Admits(K, "ErrorIsf", t, p)
    /\ Do("ErrorIsf", t, p, Ret(ErrorIsf(H, t, p[1], p[2])), "nil")

DoErrorIs(K) ==
  \E t \in K.ctxs, p \in ErrOrNil \X ErrOrNil :
    /\ Admits(K, "ErrorIs", t, p)
    /\ Do("ErrorIs", t, p, Ret(ErrorIs(H, t, p[1], p[2])), "nil")

DoErrorIsNotf(K) ==
  \E t \in K.ctxs, p \in ErrOrNil \X ErrOrNil :
    /\ Admits(K, "ErrorIsNotf", t, p)
    /\ Do("ErrorIsNotf", t, p, Ret(ErrorIsNotf(H, t, p[1], p[2])), "nil")

DoErrorIsNot(K) ==
  \E t \in K.ctxs, p \in ErrOrNil \X ErrOrNil :
    /\ Admits(K, "ErrorIsNot", t, p)
    /\ Do("ErrorIsNot", t, p, Ret(ErrorIsNot(H, t, p[1], p[2])), "nil")

DoMapContainsKeyf(K) ==
  \E t \in K.ctxs, p \in Maps \X Keys :
    /\ Admits(K, "MapContainsKeyf", t, p)
    /\ Do("MapContainsKeyf", t, p, Ret(MapContainsKeyf(H, t, p[1], p[2])), "nil")

DoMapContainsKey(K) ==
  \E t \in K.ctxs, p \in Maps \X Keys :
    /\ Admits(K, "MapContainsKey", t, p)
    /\ Do("MapContainsKey", t, p, Ret(MapContainsKey(H, t, p[1], p[2])), "nil")

DoMapDoesNotContainKeyf(K) ==
  \E t \in K.ctxs, p \in Maps \X Keys :
    /\ Admits(K, "MapDoesNotContainKeyf", t, p)
    /\ Do("MapDoesNotContainKeyf", t, p, Ret(MapDoesNotContainKeyf(H, t, p[1], p[2])), "nil")

DoMapDoesNotContainKey(K) ==
  \E t \in K.ctxs, p \in Maps \X Keys :
    /\ Admits(K, "MapDoesNotContainKey", t, p)
    /\ Do("MapDoesNotContainKey", t, p, Ret(MapDoesNotContainKey(H, t, p[1], p[2])), "nil")

DoEmptyMapf(K) ==
  \E t \in K.ctxs, m \in Maps :
    /\ Admits(K, "EmptyMapf", t, <<m>>)
    /\ Do("EmptyMapf", t, <<m>>, Ret(EmptyMapf(H, t, m)), "nil")

DoEmptyMap(K) ==
  \E t \in K.ctxs, m \in Maps :
    /\ Admits(K, "EmptyMap", t, <<m>>)
    /\ Do("EmptyMap", t, <<m>>, Ret(EmptyMap(H, t, m)), "nil")

DoNotEmptyMapf(K) ==
  \E t \in K.ctxs, m \in Maps :
    /\ Admits(K, "NotEmptyMapf", t, <<m>>)
    /\ Do("NotEmptyMapf", t, <<m>>, Ret(NotEmptyMapf(H, t, m)), "nil")

DoNotEmptyMap(K) ==
  \E t \in K.ctxs, m \in Maps :
    /\ Admits(K, "NotEmptyMap", t, <<m>>)
    /\ Do("NotEmptyMap", t, <<m>>, Ret(NotEmptyMap(H, t, m)), "nil")

DoEmptySlicef(K) ==
  \E t \in K.ctxs, sl \in Slices :
    /\ Admits(K, "EmptySlicef", t, <<sl>>)
    /\ Do("EmptySlicef", t, <<sl>>, Ret(EmptySlicef(H, t, sl)), "nil")

DoEmptySlice(K) ==
  \E t \in K.ctxs, sl \in Slices :
    /\ Admits(K, "EmptySlice", t, <<sl>>)
    /\ Do("EmptySlice", t, <<sl>>, Ret(EmptySlice(H, t, sl)), "nil")

DoNotEmptySlicef(K) ==
  \E t \in K.ctxs, sl \in Slices :
    /\ Admits(K, "NotEmptySlicef", t, <<sl>>)
    /\ Do("NotEmptySlicef", t, <<sl>>, Ret(NotEmptySlicef(H, t, sl)), "nil")

DoNotEmptySlice(K) ==
  \E t \in K.ctxs, sl \in Slices :
    /\ Admits(K, "NotEmptySlice", t, <<sl>>)
    /\ Do("NotEmptySlice", t, <<sl>>, Ret(NotEmptySlice(H, t, sl)), "nil")

DoDeepEqualf(K) ==
  \E t \in K.ctxs, p \in DeepPairs :
    /\ Admits(K, "DeepEqualf", t, p)
    /\ Do("DeepEqualf", t, p, Ret(DeepEqualf(H, t, p[1], p[2])), "nil")

DoDeepEqual(K) ==
  \E t \in K.ctxs, p \in DeepPairs :
    /\ Admits(K, "DeepEqual", t, p)
    /\ Do("DeepEqual", t, p, Ret(DeepEqual(H, t, p[1], p[2])), "nil")

DoNotDeepEqualf(K) ==
  \E t \in K.ctxs, p \in DeepPairs :
    /\ Admits(K, "NotDeepEqualf", t, p)
    /\ Do("NotDeepEqualf", t, p, Ret(NotDeepEqualf(H, t, p[1], p[2])), "nil")

DoNotDeepEqual(K) ==
  \E t \in K.ctxs, p \in DeepPairs :
    /\ Admits(K, "NotDeepEqual", t, p)
    /\ Do("NotDeepEqual", t, p, Ret(NotDeepEqual(H, t, p[1], p[2])), "nil")

\* The test calls some check function with a context in T: any call, or
\* (again) the call it made last.
Checks(K) ==
  \/ DoEqualf(K)
  \/ DoEqual(K)
  \/ DoNotEqualf(K)
  \/ DoNotEqual(K)
  \/ DoTruef(K)
  \/ DoTrue(K)
  \/ DoFalsef(K)
  \/ DoFalse(K)
  \/ DoNilf(K)
  \/ DoNil(K)
  \/ DoNotNilf(K)
  \/ DoNotNil(K)
  \/ DoStringContainsf(K)
  \/ DoStringContains(K)
  \/ DoStringDoesNotContainf(K)
  \/ DoStringDoesNotContain(K)
  \/ DoPanicsf(K)
  \/ DoPanics(K)
  \/ DoDoesNotPanicf(K)
  \/ DoDoesNotPanic(K)
  \/ DoErrorIsf(K)
  \/ DoErrorIs(K)
  \/ DoErrorIsNotf(K)
  \/ DoErrorIsNot(K)
  \/ DoMapContainsKeyf(K)
  \/ DoMapContainsKey(K)
  \/ DoMapDoesNotContainKeyf(K)
  \/ DoMapDoesNotContainKey(K)
  \/ DoEmptyMapf(K)
  \/ DoEmptyMap(K)
  \/ DoNotEmptyMapf(K)
  \/ DoNotEmptyMap(K)
  \/ DoEmptySlicef(K)
  \/ DoEmptySlice(K)
  \/ DoNotEmptySlicef(K)
  \/ DoNotEmptySlice(K)
  \/ DoDeepEqualf(K)
  \/ DoDeepEqual(K)
  \/ DoNotDeepEqualf(K)
  \/ DoNotDeepEqual(K)

\* The test calls a method of the TBSpy.
DoSpiedOnAFailure(K) ==
  /\ Admits(K, "TBSpy.SpiedOnAFailure", "spy", <<>>)
  /\ Do("TBSpy.SpiedOnAFailure", "spy", <<>>, Ret(H), SpiedOnAFailure(H))

DoFail(K) ==
  /\ Admits(K, "TBSpy.Fail", "spy", <<>>)
  /\ Do("TBSpy.Fail", "spy", <<>>, Ret(TBSpy_Fail(H)), "nil")

DoFailNow(K) ==
  /\ Admits(K, "TBSpy.FailNow", "spy", <<>>)
  /\ Do("TBSpy.FailNow", "spy", <<>>, Ret(TBSpy_FailNow(H)), "nil")

DoError(K) ==
  /\ Admits(K, "TBSpy.Error", "spy", <<>>)
  /\ Do("TBSpy.Error", "spy", <<>>, Ret(TBSpy_Error(H)), "nil")

DoErrorf(K) ==
  /\ Admits(K, "TBSpy.Errorf", "spy", <<>>)
  /\ Do("TBSpy.Errorf", "spy", <<>>, Ret(TBSpy_Errorf(H)), "nil")

DoFatalf(K) ==
  /\ Admits(K, "TBSpy.Fatalf", "spy", <<>>)
  /\ Do("TBSpy.Fatalf", "spy", <<>>, Ret(TBSpy_Fatalf(H)), "nil")

DoFatal(K) ==
  /\ Admits(K, "TBSpy.Fatal", "spy", <<>>)
  /\ Do("TBSpy.Fatal", "spy", <<>>, Ret(TBSpy_Fatal(H)), "nil")

DoExpectFailure(K) ==
  /\ Admits(K, "TBSpy.ExpectFailure", "spy", <<>>)
  /\ Do("TBSpy.ExpectFailure", "spy", <<>>, Ret(ExpectFailure(H)), "nil")

DoExpectSuccess(K) ==
  /\ Admits(K, "TBSpy.ExpectSuccess", "spy", <<>>)
  /\ Do("TBSpy.ExpectSuccess", "spy", <<>>, Ret(ExpectSuccess(H)), "nil")

SpyFails(K) ==
  \/ DoFail(K)
  \/ DoFailNow(K)
  \/ DoError(K)
  \/ DoErrorf(K)
  \/ DoFatalf(K)
  \/ DoFatal(K)

\* A test case: any operations, on the testing.TB or on the TBSpy around it.
Next ==
  \/ Checks(AnyTest)
  \/ SpyFails(AnyTest)
  \/ DoSpiedOnAFailure(AnyTest)
  \/ DoExpectFailure(AnyTest)
  \/ DoExpectSuccess(AnyTest)

Spec == Init /\ [][Next]_vars

\* A test of the TBSpy itself: only its own methods are called.
NextSpy ==
  \/ SpyFails(SpyTest)
  \/ DoSpiedOnAFailure(SpyTest)
  \/ DoExpectFailure(SpyTest)
  \/ DoExpectSuccess(SpyTest)

SpecSpy == Init /\ [][NextSpy]_vars

\* The pattern of the tests expected to fail: s := spy.SpyOn(t); defer
\* s.ExpectFailure(); then check calls on s. ExpectFailure runs last, once.
NextPattern ==
  \/ Checks(PatternTest)
  \/ DoExpectFailure(PatternEnd)

SpecPattern == Init /\ [][NextPattern]_vars

\* One check called again and again with the same context and input.
NextRepeat == Checks(RepeatTest)

SpecRepeat == Init /\ [][NextRepeat]_vars

\* The formatted form of a check, then its default form on the same input.
NextForms == Checks(FormsTest)

SpecForms == Init /\ [][NextForms]_vars

\* ------------------------------------------------------------------ predicates
\* What each check is for, stated on its input and apart from its code.

Family(base) == {base, base \o "f"}

\* The Errorf calls the last operation made on the context it was given.
Reported == Count(last.trace, last.t, "Errorf")

\* The calls of op the last operation made on the wrapped testing.TB.
OnReal(op) == Count(last.trace, "real", op)

\* x and y are one value, and one that equals itself.
Same(x, y) == x = y /\ ~x.nan

\* sub occurs in s.
Occurs(s, sub) ==
  \E i \in 0..Len(s) :
    /\ i + Len(sub) <= Len(s)
    /\ SubSeq(s, i + 1, i + Len(sub)) = sub

\* The errors reached from the errors of S by following Unwrap.
RECURSIVE Closure(_)
Closure(S) ==
  LET S2 == S \cup UNION {{Unwrap(e)[i] : i \in DOMAIN Unwrap(e)} : e \in S}
  IN IF S2 = S THEN S ELSE Closure(S2)

Chain(err) == IF err = NilErr THEN {} ELSE Closure({err})

\* err is the target, or an error of its chain is the target or has an Is
\* method that accepts it.
Matches(err, target) ==
  \/ err = target
  \/ \E e \in Chain(err) : e = target \/ IsMethod(e, target)

\* The predicate the check fn evaluates holds of input x.
Holds(fn, x) ==
  CASE fn \in Family("Equal") -> Same(x[1], x[2])
    [] fn \in Family("NotEqual") -> ~Same(x[1], x[2])
    [] fn \in Family("True") -> x[1] = TRUE
    [] fn \in Family("False") -> x[1] = FALSE
    [] fn \in Family("Nil") -> x[1].isnil /\ x[1].kind \in {"untyped", "interface"}
    [] fn \in Family("NotNil") ->
         ~(x[1].isnil /\ x[1].kind \in {"untyped", "interface"})
    [] fn \in Family("StringContains") -> Occurs(x[1], x[2])
    [] fn \in Family("StringDoesNotContain") -> ~Occurs(x[1], x[2])
    [] fn \in Family("Panics") -> x[1] \in {"panics", "panics nil"}
    [] fn \in Family("DoesNotPanic") -> x[1] = "returns"
    [] fn \in Family("ErrorIs") -> Matches(x[1], x[2])
    [] fn \in Family("ErrorIsNot") -> ~Matches(x[1], x[2])
    [] fn \in Family("MapContainsKey") -> \E k \in DOMAIN x[1] : k = x[2]
    [] fn \in Family("MapDoesNotContainKey") -> \A k \in DOMAIN x[1] : k # x[2]
    [] fn \in Family("EmptyMap") -> DOMAIN x[1] = {}
    [] fn \in Family("NotEmptyMap") -> DOMAIN x[1] # {}
    [] fn \in Family("EmptySlice") -> x[1] = <<>>
    [] fn \in Family("NotEmptySlice") -> x[1] # <<>>
    [] fn \in Family("DeepEqual") ->
         x[1].isnil = x[2].isnil /\ x[1].elems = x[2].elems
    [] fn \in Family("NotDeepEqual") ->
         ~(x[1].isnil = x[2].isnil /\ x[1].elems = x[2].elems)

\* ------------------------------------------------------------------ claims

C2_SpyIsolation ==
  [][/\ last'.fn \in SpyFailFns =>
          /\ \A i \in 1..Len(last'.trace) :
               last'.trace[i][1] = "real" =>
                 last'.trace[i][2] \in {"Helper", "Log", "Logf"}
          /\ tb' = tb
          /\ last'.returned
     /\ (tb'.failed /\ ~tb.failed) =>
          last'.fn \in {"TBSpy.ExpectFailure", "TBSpy.ExpectSuccess"}]_vars

\* Fatalf on the TBSpy after another failure method: the flag is set, the
\* wrapped testing.TB is neither failed nor stopped.
C2_Witness ==
  /\ last.fn = "TBSpy.Fatalf"
  /\ ncalls >= 2
  /\ failed
  /\ ~tb.failed
  /\ ~tb.aborted
  /\ last.returned
  /\ OnReal("Logf") = 1

\* C3: TBSpy.failed is false after SpyOn, is true after every call of Fail,
\* FailNow, Error, Errorf, Fatal or Fatalf, and once true stays true under
\* every later TBSpy method.
C3_FlagMonotone ==
  /\ failed = FALSE
  /\ [][/\ failed => failed'
        /\ last'.fn \in SpyFailFns => failed']_vars

\* The flag still set after a failure method and two later TBSpy methods.
C3_Witness ==
  /\ failed
  /\ ncalls >= 3
  /\ last.fn \in {"TBSpy.SpiedOnAFailure", "TBSpy.ExpectFailure",
                  "TBSpy.ExpectSuccess", "TBSpy.Fail"}

\* C4: SpiedOnAFailure returns the flag; ExpectFailure makes one Errorf call
\* on the wrapped testing.TB when the flag is false and none when it is true;
\* ExpectSuccess makes one when the flag is true and none when it is false;
\* none of the three changes the flag.
C4_SpyHelpers ==
  [][/\ last'.fn = "TBSpy.SpiedOnAFailure" =>
          last'.result = failed /\ failed' = failed /\ tb' = tb
     /\ last'.fn = "TBSpy.ExpectFailure" =>
          /\ failed' = failed
          /\ tb'.errors = tb.errors + (IF failed THEN 0 ELSE 1)
          /\ tb'.failed = (tb.failed \/ ~failed)
     /\ last'.fn = "TBSpy.ExpectSuccess" =>
          /\ failed' = failed
          /\ tb'.errors = tb.errors + (IF failed THEN 1 ELSE 0)
          /\ tb'.failed = (tb.failed \/ failed)]_vars

\* After a failure method, ExpectSuccess failed the wrapped testing.TB.
C4_Witness ==
  /\ last.fn = "TBSpy.ExpectSuccess"
  /\ failed
  /\ tb.failed
  /\ tb.errors = 1
  /\ OnReal("Errorf") = 1

\* C5: in a test that calls check functions on a TBSpy and ends with one
\* ExpectFailure, the wrapped testing.TB is failed at the end exactly when no
\* check reported a failure; when one did, the flag is set and the wrapped
\* testing.TB received no Errorf at all.
C5_ExpectedToFail ==
  last.fn = "TBSpy.ExpectFailure" =>
    /\ tb.failed <=> reports = 0
    /\ reports > 0 => failed /\ tb.errors = 0 /\ OnReal("Errorf") = 0

\* A passing and a failing check on the TBSpy, then ExpectFailure: the wrapped
\* testing.TB is not failed.
C5_Witness ==
  /\ last.fn = "TBSpy.ExpectFailure"
  /\ ncalls = 3
  /\ reports = 1
  /\ failed
  /\ ~tb.failed

\* C6 as stated: Equal(x, x) passes and NotEqual(x, x) fails for every value x
\* of a comparable type; Equal(x, y) fails and NotEqual(x, y) passes for x # y.
C6_Original ==
  /\ last.fn \in Family("Equal") =>
       Reported = IF last.input[1] = last.input[2] THEN 0 ELSE 1
  /\ last.fn \in Family("NotEqual") =>
       Reported = IF last.input[1] = last.input[2] THEN 1 ELSE 0

\* C6 amended: Equal(x, x) passes and NotEqual(x, x) fails for every x that is
\* not a NaN; Equal(x, y) fails and NotEqual(x, y) passes for x # y and for
\* a NaN x = y; so on every pair exactly one of the two reports a failure.
C6_EqualNotEqual ==
  /\ last.fn \in Family("Equal") =>
       Reported = IF last.input[1] = last.input[2] /\ ~last.input[1].nan
                  THEN 0 ELSE 1
  /\ last.fn \in Family("NotEqual") =>
       Reported = IF last.input[1] = last.input[2] /\ ~last.input[1].nan
                  THEN 1 ELSE 0

\* Equal(NaN, NaN) reported a failure.
C6_Witness ==
  /\ last.fn = "Equal"
  /\ last.input[1].nan
  /\ last.input[2].nan
  /\ Reported = 1

\* C7 as stated: Nil passes exactly when its argument is the nil of its type
\* (the untyped nil or a nil pointer, map, slice or interface), and NotNil
\* passes exactly when it is not.
C7_NilIffAbsent ==
  /\ last.fn \in Family("Nil") => (Reported = 0 <=> last.input[1].isnil)
  /\ last.fn \in Family("NotNil") => (Reported = 0 <=> ~last.input[1].isnil)

\* C8: Panics and DoesNotPanic return to their caller whether f panics or
\* not; Panics reports nothing exactly when f panicked, and then returns a
\* non-nil recovered value (the payload, when that is not nil), and reports
\* once otherwise; DoesNotPanic reports once exactly when f panicked.
C8_PanicInterception ==
  /\ last.fn \in Family("Panics") \cup Family("DoesNotPanic") => last.returned
  /\ last.fn \in Family("Panics") =>
       /\ Reported = IF Panicked(last.input[1]) THEN 0 ELSE 1
       /\ Panicked(last.input[1]) <=> last.result # "nil"
       /\ last.input[1] = "panics" => last.result = "test"
  /\ last.fn \in Family("DoesNotPanic") =>
       Reported = IF Panicked(last.input[1]) THEN 1 ELSE 0

\* Panics of a procedure that calls panic(nil): no report, and it returned.
C8_Witness ==
  /\ last.fn = "Panics"
  /\ last.input = <<"panics nil">>
  /\ Reported = 0
  /\ last.returned
  /\ last.result # "nil"

\* C9: ErrorIs passes exactly when err matches target (it is the target, or
\* an error of its Unwrap chain is the target or accepts it in its Is
\* method), ErrorIsNot exactly when it does not; with a nil err both return,
\* and for a non-nil target ErrorIs reports and ErrorIsNot does not.
C9_ErrorIs ==
  /\ last.fn \in Family("ErrorIs") =>
       /\ Reported = IF Matches(last.input[1], last.input[2]) THEN 0 ELSE 1
       /\ last.returned
       /\ (last.input[1] = NilErr /\ last.input[2] # NilErr) => Reported = 1
  /\ last.fn \in Family("ErrorIsNot") =>
       /\ Reported = IF Matches(last.input[1], last.input[2]) THEN 1 ELSE 0
       /\ last.returned
       /\ (last.input[1] = NilErr /\ last.input[2] # NilErr) => Reported = 0

\* ErrorIsNot of a nil err and errToCompare passed.
C9_Witness ==
  /\ last.fn = "ErrorIsNot"
  /\ last.input = <<NilErr, 1>>
  /\ Reported = 0
  /\ last.returned

\* C10: after n calls of one check with one input on one context, the
\* context received no failure report when the check passes and n of them,
\* one in each call, when it fails.
C10_Repeat ==
  ncalls > 0 =>
    /\ Reported = IF Holds(last.fn, last.input) THEN 0 ELSE 1
    /\ reports = IF Holds(last.fn, last.input) THEN 0 ELSE ncalls

\* StringContainsf failed on the testing.TB for the third time in a row.
C10_Witness ==
  /\ last.fn = "StringContainsf"
  /\ last.t = "real"
  /\ ncalls = 3
  /\ reports = 3
  /\ tb.errors = 3

\* C11: the default form of a check, called with the context and input its
\* formatted form was just called with, makes the calls of t.Helper() and
\* then exactly the calls the formatted form made, so it reports a failure
\* exactly when the formatted form did, returns what it returned and
\* returns exactly when it did.
C11_FormsAgree ==
  [][ncalls = 1 =>
       /\ last'.trace = Helper(H, last.t).trace \o last.trace
       /\ Count(last'.trace, last'.t, "Errorf")
            = Count(last.trace, last.t, "Errorf")
       /\ last'.result = last.result
       /\ last'.returned = last.returned]_vars

\* DeepEqualf and then DeepEqual of two operands that are not deeply equal:
\* each reported once.
C11_Witness ==
  /\ ncalls = 2
  /\ last.fn = "DeepEqual"
  /\ ~ReflectDeepEqual(last.input[1], last.input[2])
  /\ Reported = 1
  /\ reports = 2

====
